---- MODULE Spec2Model ----
(***************************************************************************)
(* Model of the SMA (Secure Messaging App) server's message store:         *)
(* the message and conversation tables, the send_message handler (two      *)
(* commits, crud.create_message), the transcript query                     *)
(* (crud.get_one_conversation) and the preview query                       *)
(* (crud.get_conversation_previews, crud._truncate_message).               *)
(*                                                                         *)
(* Strings are sequences of one-character strings, so that slicing and     *)
(* concatenation are computed and not assumed.  DATETIME values are the    *)
(* seconds of the wall clock, counted from 1.                              *)
(***************************************************************************)
EXTENDS Integers, Sequences, FiniteSets, TLC

VARIABLES message, conversation, pending, response,
          users, registering,
          keyring, passphrase, access_token, entered, wire, display

\* The tables behind the accounts, and the client process.
accountVars == <<users, registering>>

clientVars == <<keyring, passphrase, access_token, entered, wire, display>>

vars == <<message, conversation, pending, response, accountVars, clientVars>>

(***************************************************************************)
(* Bounds                                                                  *)
(***************************************************************************)
\* Rows the message table may hold.
MaxMsgs == 2

\* Register requests that may be between their look-ups and their commit.
MaxRegistering == 2

(***************************************************************************)
(* Program constants                                                       *)
(***************************************************************************)
\* crud._truncate_message: `if len(message.content) > 19`
TruncateOver == 19
\* crud._truncate_message: `message.content[:20]`
PreviewLen == 20

\* crud._truncate_message: the literal "..."
Ellipsis == <<".", ".", ".">>

(***************************************************************************)
(* The user table (models.User): three registered accounts.  An id that    *)
(* is in FriendIds but not in UserIds is a path parameter naming no user.  *)
(***************************************************************************)
\* crud.create_user: pwd_context.hash(password)
GetPasswordHash(password) == <<"$2b$", password>>

\* models.User
UserRow(id, username, email, password) ==
    [id |-> id, username |-> username, email |-> email,
     hashed_password |-> GetPasswordHash(password)]

User == <<UserRow(1, "mia", "mia@sma", "mia-secret"),
          UserRow(2, "dash", "dash@sma", "dash-secret"),
          UserRow(3, "kai", "kai@sma", "kai-secret")>>

UserIds == {User[i].id : i \in 1..Len(User)}

FriendIds == UserIds \cup {Len(User) + 1}

\* Conversation.sender / Conversation.recipient, then .username; the id of
\* a user is the position of the row.
Username(id) == users[id].username

(***************************************************************************)
(* Message contents a client may post (schema.MessageBase.content).        *)
(***************************************************************************)
Alphabet == <<"a", "b", "c", "d", "e">>

Text(n) == [i \in 1..n |-> Alphabet[((i - 1) % Len(Alphabet)) + 1]]

\* What the users post in Spec and SpecForeignKey: one short text.
Contents == {Text(Len(Ellipsis))}

\* What the users post in SpecPreview: the lengths around the truncation
\* threshold.
PreviewContents == {Text(PreviewLen - 1), Text(PreviewLen), Text(PreviewLen + 1)}

(***************************************************************************)
(* Rows                                                                    *)
(***************************************************************************)
\* models.Message; the AUTO_INCREMENT id of a table that is never deleted
\* from is the position of the row.
MessageRow(id, time_sent, content) ==
    [id |-> id, time_sent |-> time_sent, content |-> content]

\* models.Conversation
ConversationRow(id, sender_id, recipient_id, message_id) ==
    [id |-> id, sender_id |-> sender_id, recipient_id |-> recipient_id,
     message_id |-> message_id]

\* Conversation.message (relationship over message_id)
MessageOf(msgs, c) == msgs[c.message_id]

(***************************************************************************)
(* crud._map_message                                                       *)
(***************************************************************************)
MapMessage(msgs, c) ==
    [sender    |-> Username(c.sender_id),
     recipient |-> Username(c.recipient_id),
     content   |-> MessageOf(msgs, c).content,
     time_sent |-> MessageOf(msgs, c).time_sent]

(***************************************************************************)
(* list.sort(key=lambda obj: obj.time_sent): a stable ascending sort.      *)
(* An entry is a mapped object together with the row it was mapped from.   *)
(***************************************************************************)
Rank(s, i) ==
    1 + Cardinality({j \in 1..Len(s) :
                        \/ s[j].obj.time_sent < s[i].obj.time_sent
                        \/ s[j].obj.time_sent = s[i].obj.time_sent /\ j < i})

\* Mutant: the sort is forgotten.
SortByTimeSentUnsorted(s) == s

SortByTimeSent(s) ==
    [k \in 1..Len(s) |-> s[CHOOSE i \in 1..Len(s) : Rank(s, i) = k]]

\* map(lambda msg: _map_message(msg), rows)
MapRows(msgs, rows) ==
    [i \in 1..Len(rows) |-> [row |-> rows[i], obj |-> MapMessage(msgs, rows[i])]]

Objects(entries) == [i \in 1..Len(entries) |-> entries[i].obj]

(***************************************************************************)
(* crud.get_one_conversation                                               *)
(***************************************************************************)
\* db.query(Conversation).filter(sender_id == s).filter(recipient_id == r).all()
\* InnoDB returns the rows in primary-key order.
\* Mutant: the filter on recipient_id is forgotten.
QueryDirectionAnyRecipient(convs, s, r) ==
    SelectSeq(convs, LAMBDA c : c.sender_id = s)

QueryDirection(convs, s, r) ==
    SelectSeq(convs, LAMBDA c : c.sender_id = s /\ c.recipient_id = r)

\* Mutant: the messages of the friend are left out.
MessagesReceivedNever(convs, reader_id, friend_id) == <<>>

\* Mutant: the reverse query also runs for a conversation with oneself.
MessagesReceivedAlways(convs, reader_id, friend_id) ==
    QueryDirection(convs, friend_id, reader_id)

MessagesReceived(convs, reader_id, friend_id) ==
    IF reader_id = friend_id
    THEN <<>>
    ELSE QueryDirection(convs, friend_id, reader_id)

ConversationEntries(convs, msgs, reader_id, friend_id) ==
    LET messages_sent     == QueryDirection(convs, reader_id, friend_id)
        messages_received == MessagesReceived(convs, reader_id, friend_id)
    IN  SortByTimeSent(MapRows(msgs, messages_sent \o messages_received))

GetOneConversation(convs, msgs, reader_id, friend_id) ==
    Objects(ConversationEntries(convs, msgs, reader_id, friend_id))

(***************************************************************************)
(* crud._truncate_message                                                  *)
(***************************************************************************)
\* Mutant: the threshold is off by one (`> 20`).
TruncateMessageOffByOne(obj) ==
    IF Len(obj.content) > PreviewLen
    THEN [obj EXCEPT !.content = SubSeq(obj.content, 1, PreviewLen) \o Ellipsis]
    ELSE obj

TruncateMessage(obj) ==
    IF Len(obj.content) > TruncateOver
    THEN [obj EXCEPT !.content = SubSeq(obj.content, 1, PreviewLen) \o Ellipsis]
    ELSE obj

(***************************************************************************)
(* crud.get_conversation_previews                                          *)
(*                                                                         *)
(* SELECT conversation.*, max(message.time_sent) FROM conversation,        *)
(* message WHERE message.id = conversation.message_id AND                  *)
(* conversation.sender_id != :reader GROUP BY conversation.sender_id.      *)
(* The conversation columns are neither aggregated nor grouped: MariaDB    *)
(* takes them from a row of the group of its choice.  `pick` is that       *)
(* choice, one row per group.                                              *)
(***************************************************************************)
\* Mutant: the filter sender_id != reader_id is forgotten.
PreviewJoinAnySender(convs, msgs, reader_id) ==
    SelectSeq(convs, LAMBDA c : c.message_id \in 1..Len(msgs))

PreviewJoin(convs, msgs, reader_id) ==
    SelectSeq(convs, LAMBDA c : /\ c.message_id \in 1..Len(msgs)
                                /\ c.sender_id # reader_id)

PreviewSenders(convs, msgs, reader_id) ==
    LET joined == PreviewJoin(convs, msgs, reader_id)
    IN  {joined[i].sender_id : i \in 1..Len(joined)}

PreviewPicks(convs, msgs, reader_id) ==
    LET joined == PreviewJoin(convs, msgs, reader_id)
        ids    == {joined[i].id : i \in 1..Len(joined)}
    IN  {pick \in [PreviewSenders(convs, msgs, reader_id) -> ids] :
            \A s \in DOMAIN pick : convs[pick[s]].sender_id = s}

\* The picked rows, one per group, in the order of the groups.
RECURSIVE GroupRows(_, _, _)
GroupRows(convs, pick, senders) ==
    IF senders = {}
    THEN <<>>
    ELSE LET s == CHOOSE x \in senders : \A y \in senders : x <= y
         IN  <<convs[pick[s]]>> \o GroupRows(convs, pick, senders \ {s})

PreviewEntries(convs, msgs, pick) ==
    SortByTimeSent(MapRows(msgs, GroupRows(convs, pick, DOMAIN pick)))

GetConversationPreviews(convs, msgs, pick) ==
    LET response_ == Objects(PreviewEntries(convs, msgs, pick))
    IN  [i \in 1..Len(response_) |-> TruncateMessage(response_[i])]

(***************************************************************************)
(* State                                                                   *)
(*   message, conversation : the committed rows of the two tables          *)
(*   pending  : send_message requests between create_message's two commits *)
(*   response : the answer to the request served last                      *)
(*   users    : the committed rows of the user table                       *)
(*   registering : register requests between their two look-ups and the    *)
(*              commit of create_user                                      *)
(*   keyring  : the keys in the client's GnuPG home                        *)
(*   passphrase, access_token : GPGService.passphrase and                  *)
(*              HTTPService.access_token ("" and <<>> stand for None)      *)
(*   entered  : what the user typed at the prompts of the last client      *)
(*              action                                                     *)
(*   wire     : the requests the last client action sent                   *)
(*   display  : what the last client action printed                        *)
(***************************************************************************)
NoResponse == [op |-> "none", status |-> 0, body |-> <<>>]

NothingEntered == [op |-> "none"]

Init ==
    /\ message = <<>>
    /\ conversation = <<>>
    /\ pending = {}
    /\ response = NoResponse
    /\ users = User
    /\ registering = {}
    /\ keyring = {}
    /\ passphrase = ""
    /\ access_token = <<>>
    /\ entered = NothingEntered
    /\ wire = <<>>
    /\ display = <<>>

\* datetime.now() as stored in a DATETIME column: whole seconds.  A request
\* reads the clock before its insert is committed, so a reading may lie
\* before the time of a row committed earlier; readings that skip a second
\* no row holds order the rows no differently and are left out.
RECURSIVE LatestTimeSent(_)
LatestTimeSent(msgs) ==
    IF msgs = <<>>
    THEN 0
    ELSE LET rest == LatestTimeSent(Tail(msgs))
         IN  IF Head(msgs).time_sent > rest THEN Head(msgs).time_sent ELSE rest

ClockReadings(msgs) == 1..(LatestTimeSent(msgs) + 1)

\* messages.send_message, up to create_message's first db.commit():
\* the Message row is committed, the Conversation row is not yet built.
CreateMessageInsertMessage(sender, recipient, content, time_sent) ==
    /\ Len(message) < MaxMsgs
    /\ LET db_message == MessageRow(Len(message) + 1, time_sent, content)
       IN  /\ message' = Append(message, db_message)
           /\ pending' = pending \cup {[sender     |-> sender,
                                        recipient  |-> recipient,
                                        message_id |-> db_message.id]}
    /\ UNCHANGED <<conversation, response, accountVars, clientVars>>

\* messages.send_message, from the Conversation insert on: the second
\* db.commit() and the transcript the handler returns.
CreateMessageInsertConversation(req) ==
    /\ req \in pending
    /\ req.recipient \in UserIds
    /\ LET db_conversation == ConversationRow(Len(conversation) + 1, req.sender,
                                              req.recipient, req.message_id)
       IN  /\ conversation' = Append(conversation, db_conversation)
           /\ response' = [op     |-> "send_message",
                           status |-> 200,
                           body   |-> GetOneConversation(conversation', message,
                                                         req.sender, req.recipient)]
    /\ pending' = pending \ {req}
    /\ UNCHANGED <<message, accountVars, clientVars>>

\* messages.send_message when recipient_id names no user: the foreign key
\* user.id rejects the Conversation insert, the handler ends in an unhandled
\* IntegrityError, and the Message row of the first commit stays.
CreateMessageForeignKeyFails(req) ==
    /\ req \in pending
    /\ req.recipient \notin UserIds
    /\ response' = [op |-> "send_message", status |-> 500, body |-> <<>>]
    /\ pending' = pending \ {req}
    /\ UNCHANGED <<message, conversation, accountVars, clientVars>>

\* messages.get_conversation
GetConversation(reader_id, friend_id) ==
    /\ response' = [op     |-> "get_conversation",
                    status |-> 200,
                    body   |-> GetOneConversation(conversation, message,
                                                  reader_id, friend_id)]
    /\ UNCHANGED <<message, conversation, pending, accountVars, clientVars>>

\* messages.get_conversations
GetConversations(reader_id) ==
    /\ \E pick \in PreviewPicks(conversation, message, reader_id) :
          response' = [op     |-> "get_conversations",
                       status |-> 200,
                       body   |-> GetConversationPreviews(conversation, message, pick)]
    /\ UNCHANGED <<message, conversation, pending, accountVars, clientVars>>

\* The users who write.
Senders == {User[1].id, User[2].id}

\* Two users write to every user, and every user reads.
Next ==
    \/ \E sender \in Senders, recipient \in UserIds, content \in Contents,
          time_sent \in ClockReadings(message) :
          CreateMessageInsertMessage(sender, recipient, content, time_sent)
    \/ \E req \in pending : CreateMessageInsertConversation(req)
    \/ \E reader_id \in UserIds, friend_id \in UserIds :
          GetConversation(reader_id, friend_id)
    \/ \E reader_id \in UserIds : GetConversations(reader_id)

Spec == Init /\ [][Next]_vars

\* The previews of texts of every length class: every user writes to the
\* first user, and everyone looks at their previews.
NextPreview ==
    \/ \E sender \in UserIds, content \in PreviewContents,
          time_sent \in ClockReadings(message) :
          CreateMessageInsertMessage(sender, User[1].id, content, time_sent)
    \/ \E req \in pending : CreateMessageInsertConversation(req)
    \/ \E reader_id \in UserIds : GetConversations(reader_id)

SpecPreview == Init /\ [][NextPreview]_vars

\* The first user writes to every id, also to ids that name no user, and
\* reads the transcripts.
NextForeignKey ==
    \/ \E recipient \in FriendIds, content \in Contents,
          time_sent \in ClockReadings(message) :
          CreateMessageInsertMessage(User[1].id, recipient, content, time_sent)
    \/ \E req \in pending : CreateMessageInsertConversation(req)
    \/ \E req \in pending : CreateMessageForeignKeyFails(req)
    \/ \E friend_id \in FriendIds : GetConversation(User[1].id, friend_id)

SpecForeignKey == Init /\ [][NextForeignKey]_vars

(***************************************************************************)
(* Helpers of the properties                                               *)
(***************************************************************************)
Links == {conversation[i] : i \in 1..Len(conversation)}

Between(c, a, b) ==
    \/ c.sender_id = a /\ c.recipient_id = b
    \/ c.sender_id = b /\ c.recipient_id = a

Count(seq, x) == Cardinality({i \in 1..Len(seq) : seq[i] = x})

Transcript(reader_id, friend_id) ==
    GetOneConversation(conversation, message, reader_id, friend_id)

TranscriptEntries(reader_id, friend_id) ==
    ConversationEntries(conversation, message, reader_id, friend_id)

TimeOf(c) == MessageOf(message, c).time_sent

PreviewBodies(reader_id) ==
    {GetConversationPreviews(conversation, message, pick) :
        pick \in PreviewPicks(conversation, message, reader_id)}

(***************************************************************************)
(* C1: for distinct users A and B, get_one_conversation(A, B) and          *)
(* get_one_conversation(B, A) are the same sequence, also when messages of *)
(* the two directions share a time_sent.                                   *)
(***************************************************************************)
C1_TranscriptSymmetric ==
    \A a \in UserIds, b \in UserIds :
        a # b => Transcript(a, b) = Transcript(b, a)

(***************************************************************************)
(* C2: in a transcript, two messages of equal time_sent stand in insertion *)
(* (id) order, whoever sent them and whoever reads.                        *)
(***************************************************************************)
C2_TiesInIdOrder ==
    \A reader \in UserIds, friend \in UserIds :
        LET e == TranscriptEntries(reader, friend)
        IN  \A i \in 1..Len(e), j \in 1..Len(e) :
                (i < j /\ e[i].obj.time_sent = e[j].obj.time_sent)
                    => e[i].row.id < e[j].row.id

(***************************************************************************)
(* C3: get_one_conversation(A, B) holds exactly the committed links        *)
(* between A and B: each as often as it was sent, and nothing else.        *)
(***************************************************************************)
C3_TranscriptExact ==
    \A reader \in UserIds, friend \in FriendIds :
        LET body   == Transcript(reader, friend)
            mine   == {c \in Links : Between(c, reader, friend)}
            shown  == {body[i] : i \in 1..Len(body)}
            stored == {MapMessage(message, c) : c \in mine}
        IN  /\ Len(body) = Cardinality(mine)
            /\ \A o \in shown \cup stored :
                  Count(body, o) =
                      Cardinality({c \in mine : MapMessage(message, c) = o})

C3_Witness ==
    /\ response.op = "get_conversation"
    /\ response.body # <<>>
    /\ \E reader \in UserIds, friend \in UserIds :
          /\ response.body = Transcript(reader, friend)
          /\ \E c \in Links : c.sender_id = reader /\ ~Between(c, reader, friend)

(***************************************************************************)
(* C4: get_one_conversation(A, A) holds each message A sent to A exactly   *)
(* once.                                                                   *)
(***************************************************************************)
C4_SelfConversationOnce ==
    \A a \in UserIds :
        LET e == TranscriptEntries(a, a)
        IN  /\ \A c \in Links :
                  (c.sender_id = a /\ c.recipient_id = a)
                      => Cardinality({i \in 1..Len(e) : e[i].row.id = c.id}) = 1
            /\ \A i \in 1..Len(e) :
                  e[i].row.sender_id = a /\ e[i].row.recipient_id = a

C4_Witness ==
    /\ response.op \in {"get_conversation", "send_message"}
    /\ \E a \in UserIds :
          /\ response.body = Transcript(a, a)
          /\ Len(response.body) = MaxMsgs

(***************************************************************************)
(* C5: a transcript is sorted non-decreasing by time_sent, in whatever     *)
(* order the two queries return their rows.                                *)
(***************************************************************************)
C5_TranscriptSorted ==
    \A reader \in UserIds, friend \in FriendIds :
        LET body == Transcript(reader, friend)
        IN  \A i \in 1..Len(body), j \in 1..Len(body) :
                i < j => body[i].time_sent <= body[j].time_sent

\* A transcript was returned whose rows the queries delivered out of order.
C5_Witness ==
    /\ response.op = "get_conversation"
    /\ \E reader \in UserIds, friend \in UserIds :
          LET rows == QueryDirection(conversation, reader, friend)
                        \o MessagesReceived(conversation, reader, friend)
          IN  /\ response.body = Transcript(reader, friend)
              /\ \E i \in 1..Len(rows), j \in 1..Len(rows) :
                    i < j /\ TimeOf(rows[i]) > TimeOf(rows[j])

(***************************************************************************)
(* C6: get_conversation_previews(V) has at most one entry per sender, and  *)
(* the entry of a sender is the link of that sender whose message has the  *)
(* greatest time_sent.                                                     *)
(***************************************************************************)
C6_PreviewIsMostRecent ==
    \A v \in UserIds :
        \A body \in PreviewBodies(v) :
            /\ \A i \in 1..Len(body), j \in 1..Len(body) :
                  i # j => body[i].sender # body[j].sender
            /\ \A i \in 1..Len(body) :
                  \E c \in Links :
                      /\ body[i] = TruncateMessage(MapMessage(message, c))
                      /\ \A d \in Links :
                            d.sender_id = c.sender_id => TimeOf(d) <= TimeOf(c)

(***************************************************************************)
(* C7: every entry of get_conversation_previews(V) has V as its recipient; *)
(* a message between two other users is never in V's previews.             *)
(***************************************************************************)
C7_PreviewRecipientIsViewer ==
    \A v \in UserIds :
        \A body \in PreviewBodies(v) :
            \A i \in 1..Len(body) : body[i].recipient = Username(v)

C9_PreviewTruncation ==
    /\ \A v \in UserIds :
          \A pick \in PreviewPicks(conversation, message, v) :
              LET rows == PreviewEntries(conversation, message, pick)
                  body == GetConversationPreviews(conversation, message, pick)
              IN  /\ Len(body) = Len(rows)
                  /\ \A i \in 1..Len(body) :
                        LET stored == MessageOf(message, rows[i].row).content
                            shown  == body[i].content
                        IN  /\ Len(stored) <= 19 => shown = stored
                            /\ Len(stored) >= 20 =>
                                  /\ Len(shown) = 23
                                  /\ \A k \in 1..20 : shown[k] = stored[k]
                                  /\ \A k \in 21..23 : shown[k] = "."
    /\ \A m \in 1..Len(message) : message[m].content \in PreviewContents

\* A preview list was returned that shows a text of 20 stored characters
\* truncated and, beside it, a text of 19 characters as it was posted.
C9_Witness ==
    /\ response.op = "get_conversations"
    /\ \E i \in 1..Len(response.body) :
          response.body[i].content = Text(20) \o Ellipsis
    /\ \E j \in 1..Len(response.body) :
          response.body[j].content = Text(19)

(***************************************************************************)
(* C10: in every reachable state no committed Conversation link refers to  *)
(* a missing Message and no committed Message is without its link.         *)
(***************************************************************************)
C10_CreationAtomic ==
    /\ \A c \in Links : c.message_id \in 1..Len(message)
    /\ \A m \in 1..Len(message) : \E c \in Links : c.message_id = message[m].id

(***************************************************************************)
(* C11: when create_message cannot insert the Conversation link (the       *)
(* friend_id names no user), no Message row of that send remains: every    *)
(* Message row has its link, or belongs to a send that is still running.   *)
(***************************************************************************)
C11_NoRowFromFailedSend ==
    \A m \in 1..Len(message) :
        \/ \E c \in Links : c.message_id = message[m].id
        \/ \E req \in pending : req.message_id = message[m].id

(***************************************************************************)
(* Accounts: exceptions.py, crud.py (User), misc.py, dependencies.py and   *)
(* endpoints/user.py.                                                      *)
(*                                                                         *)
(* An optional string that is None, and an empty one, are both "": the     *)
(* handlers only test their truth value.                                   *)
(***************************************************************************)
HTTPUsernameAlreadyRegistered ==
    [status_code |-> 400, detail |-> "Username already registered", headers |-> <<>>]

HTTPEmailAlreadyRegistered ==
    [status_code |-> 400, detail |-> "Email already registered", headers |-> <<>>]

HTTPBadCredentials ==
    [status_code |-> 401, detail |-> "Incorrect username or password.",
     headers |-> <<"WWW-Authenticate: Bearer">>]

HTTPInvalidUsernameQuery ==
    [status_code |-> 422, detail |-> "The provided username was not found.",
     headers |-> <<>>]

HTTPInvalidEmailQuery ==
    [status_code |-> 422, detail |-> "The provided email was not found.",
     headers |-> <<>>]

HTTPInvalidUserQuery ==
    [status_code |-> 422, detail |-> "Invalid user query.", headers |-> <<>>]

\* An unhandled exception of a handler (sqlalchemy.exc.IntegrityError).
InternalServerError ==
    [status_code |-> 500, detail |-> "Internal Server Error", headers |-> <<>>]

\* What FastAPI answers to a raised HTTPException.
Raised(exc) ==
    [status |-> exc.status_code,
     body   |-> <<[detail |-> exc.detail, headers |-> exc.headers]>>]

Returned(content) == [status |-> 200, body |-> content]

Answer(op, result) ==
    [op |-> op, status |-> result.status, body |-> result.body]

\* db.query(models.User).filter(predicate).first(): <<>> is None
First(rows) == IF rows = <<>> THEN <<>> ELSE <<Head(rows)>>

\* crud.get_user_by_username
GetUserByUsername(us, username) ==
    First(SelectSeq(us, LAMBDA u : u.username = username))

\* crud.get_user_by_email
GetUserByEmail(us, email) ==
    First(SelectSeq(us, LAMBDA u : u.email = email))

\* misc.verify_password
VerifyPassword(plain_password, hashed_password) ==
    GetPasswordHash(plain_password) = hashed_password

\* misc.authenticate_user: <<>> is False
AuthenticateUser(us, username, password) ==
    LET auth_user == GetUserByUsername(us, username)
    IN  IF auth_user # <<>> /\ VerifyPassword(password, auth_user[1].hashed_password)
        THEN auth_user
        ELSE <<>>

\* misc.create_access_token; jwt.encode signs the claims with SECRET_KEY.
\* sub is <<>> for a token without subject; exp_passed tells whether the
\* token is presented after its expiry.
CreateAccessToken(username) ==
    [sub |-> <<username>>, exp_passed |-> FALSE, signed |-> TRUE]

\* user.login
LoginResult(us, username, password) ==
    LET auth_user == AuthenticateUser(us, username, password)
    IN  IF auth_user = <<>>
        THEN Raised(HTTPBadCredentials)
        ELSE Returned(<<[access_token |-> CreateAccessToken(auth_user[1].username),
                         token_type   |-> "bearer"]>>)

\* Mutant: an unknown subject is reported as such.
GetCurrentUserLeaky(us, token) ==
    IF ~token.signed \/ token.exp_passed \/ token.sub = <<>>
    THEN [user |-> <<>>, error |-> HTTPBadCredentials]
    ELSE LET user == GetUserByUsername(us, token.sub[1])
         IN  IF user = <<>>
             THEN [user |-> <<>>, error |-> HTTPInvalidUsernameQuery]
             ELSE [user |-> user, error |-> HTTPBadCredentials]

\* dependencies.get_current_user: the user, or the exception raised.
\* jwt.decode raises a JWTError for a bad signature and for a passed expiry.
GetCurrentUser(us, token) ==
    IF ~token.signed \/ token.exp_passed
    THEN [user |-> <<>>, error |-> HTTPBadCredentials]
    ELSE IF token.sub = <<>>
    THEN [user |-> <<>>, error |-> HTTPBadCredentials]
    ELSE LET user == GetUserByUsername(us, token.sub[1])
         IN  IF user = <<>>
             THEN [user |-> <<>>, error |-> HTTPBadCredentials]
             ELSE [user |-> user, error |-> HTTPBadCredentials]

\* Mutant: the look-up by email reports a miss as an invalid query.
LookupFriendIdByEmailVague(us, email) ==
    LET result == GetUserByEmail(us, email)
    IN  IF result = <<>>
        THEN Raised(HTTPInvalidUserQuery)
        ELSE Returned(<<[id |-> result[1].id]>>)

\* crud.lookup_friend_id_by_email
LookupFriendIdByEmail(us, email) ==
    LET result == GetUserByEmail(us, email)
    IN  IF result = <<>>
        THEN Raised(HTTPInvalidEmailQuery)
        ELSE Returned(<<[id |-> result[1].id]>>)

\* crud.lookup_friend_id_by_username
LookupFriendIdByUsername(us, username) ==
    LET result == GetUserByUsername(us, username)
    IN  IF result = <<>>
        THEN Raised(HTTPInvalidUsernameQuery)
        ELSE Returned(<<[id |-> result[1].id]>>)

\* user.lookup_friend_id, behind Depends(get_current_user)
LookupFriendIdResult(us, token, user) ==
    IF GetCurrentUser(us, token).user = <<>>
    THEN Raised(GetCurrentUser(us, token).error)
    ELSE IF user.email # ""
    THEN LookupFriendIdByEmail(us, user.email)
    ELSE IF user.username # ""
    THEN LookupFriendIdByUsername(us, user.username)
    ELSE Raised(HTTPInvalidUserQuery)

\* Mutant: the columns are not declared unique.
UniqueViolationNever(us, user) == FALSE

\* models.User: username and email are unique=True; the index rejects the
\* insert of a row that repeats either.
UniqueViolation(us, user) ==
    \E i \in 1..Len(us) : us[i].username = user.username \/ us[i].email = user.email

\* user.register, its two look-ups: the exception raised, or <<>>.
RegisterLookUps(us, user) ==
    LET existing_user  == GetUserByUsername(us, user.username)
        existing_email == GetUserByEmail(us, user.email)
    IN  IF existing_user # <<>>
        THEN <<HTTPUsernameAlreadyRegistered>>
        ELSE IF existing_email # <<>>
        THEN <<HTTPEmailAlreadyRegistered>>
        ELSE <<>>

(***************************************************************************)
(* What the clients of the account endpoints send.                         *)
(***************************************************************************)
RegisterRequests ==
    [username : {"mia", "ana", "bob"},
     email    : {"mia@sma", "ana@sma", "bob@sma"},
     password : {"ana-secret"}]

LoginNames == {"mia", "ana", ""}

LoginPasswords == {"mia-secret", "ana-secret"}

Tokens ==
    [sub : {<<>>, <<"mia">>, <<"ana">>}, exp_passed : BOOLEAN, signed : BOOLEAN]

UserLookups == [username : {"", "mia", "ana"}, email : {"", "mia@sma", "ana@sma"}]

\* user.register up to the call of crud.create_user
Register(user) ==
    /\ Cardinality(registering) < MaxRegistering
    /\ user \notin registering
    /\ IF RegisterLookUps(users, user) # <<>>
       THEN /\ response' = Answer("register", Raised(RegisterLookUps(users, user)[1]))
            /\ UNCHANGED registering
       ELSE /\ registering' = registering \cup {user}
            /\ UNCHANGED response
    /\ UNCHANGED <<message, conversation, pending, users, clientVars>>

\* crud.create_user: db.add, db.commit, and the answer of user.register
RegisterCreateUser(user) ==
    /\ user \in registering
    /\ registering' = registering \ {user}
    /\ IF UniqueViolation(users, user)
       THEN /\ response' = Answer("register", Raised(InternalServerError))
            /\ UNCHANGED users
       ELSE /\ users' = Append(users, UserRow(Len(users) + 1, user.username,
                                              user.email, user.password))
            /\ response' = Answer("register", Returned(<<>>))
    /\ UNCHANGED <<message, conversation, pending, clientVars>>

\* user.login
Login(username, password) ==
    /\ response' = Answer("login", LoginResult(users, username, password))
    /\ UNCHANGED <<message, conversation, pending, accountVars, clientVars>>

\* user.lookup_friend_id
LookupFriendId(token, user) ==
    /\ response' = Answer("lookup", LookupFriendIdResult(users, token, user))
    /\ UNCHANGED <<message, conversation, pending, accountVars, clientVars>>

NextAccounts ==
    \/ \E user \in RegisterRequests : Register(user)
    \/ \E user \in registering : RegisterCreateUser(user)
    \/ \E username \in LoginNames, password \in LoginPasswords :
          Login(username, password)
    \/ \E token \in Tokens, user \in UserLookups : LookupFriendId(token, user)

SpecAccounts == Init /\ [][NextAccounts]_vars

(***************************************************************************)
(* C17: POST /lookup/ of an authenticated caller: an email that matches no *)
(* user gives the not-found error and no id; neither username nor email    *)
(* gives the invalid-query error, which differs from the not-found error;  *)
(* a matching email, or without email a matching username, gives the id    *)
(* of that user.                                                           *)
(***************************************************************************)
C17_LookupAnswers ==
    \A user \in UserLookups :
        LET caller   == CreateAccessToken(User[1].username)
            answer   == LookupFriendIdResult(users, caller, user)
            by_email == {i \in 1..Len(users) : users[i].email = user.email}
            by_name  == {i \in 1..Len(users) : users[i].username = user.username}
            no_match == LookupFriendIdResult(users, caller,
                                             [username |-> "", email |-> "nobody@sma"])
        IN  /\ (user.email # "" /\ by_email = {}) =>
                  /\ answer.status # 200
                  /\ answer.body[1].detail = "The provided email was not found."
                  /\ \A k \in 1..Len(answer.body) : "id" \notin DOMAIN answer.body[k]
            /\ (user.email = "" /\ user.username = "") =>
                  /\ answer.status # 200
                  /\ answer.body[1].detail = "Invalid user query."
                  /\ answer # no_match
            /\ (user.email # "" /\ by_email # {}) =>
                  /\ answer.status = 200
                  /\ \E i \in by_email : answer.body = <<[id |-> users[i].id]>>
            /\ (user.email = "" /\ user.username # "" /\ by_name # {}) =>
                  /\ answer.status = 200
                  /\ \E i \in by_name : answer.body = <<[id |-> users[i].id]>>

\* A look-up by an email no user has was answered, after a registration.
C17_Witness ==
    /\ response.op = "lookup"
    /\ response.status = 422
    /\ response.body[1].detail = "The provided email was not found."
    /\ Len(users) > Len(User)

(***************************************************************************)
(* C18: no two users share a username or an email, whatever register       *)
(* requests ran and however they interleaved; a register request whose     *)
(* username or email is taken is answered with an error and leaves the     *)
(* user table as it was.                                                   *)
(***************************************************************************)
Taken(us, user) ==
    \E i \in 1..Len(us) : us[i].username = user.username \/ us[i].email = user.email

C18_UsersUnique ==
    \A i \in 1..Len(users), j \in 1..Len(users) :
        i # j => /\ users[i].username # users[j].username
                 /\ users[i].email # users[j].email

C18_RegisterKeepsUnique ==
    /\ [](C18_UsersUnique)
    /\ [](\A user \in RegisterRequests :
             Taken(users, user) => RegisterLookUps(users, user) # <<>>)
    /\ [][\A user \in registering :
             (user \notin registering' /\ Taken(users, user))
                 => /\ users' = users
                    /\ response'.op = "register"
                    /\ response'.status # 200]_vars

\* A register request lost the race against another one for its username.
C18_Witness ==
    /\ response.op = "register"
    /\ response.status = 500
    /\ Len(users) > Len(User)

(***************************************************************************)
(* C19: every authentication failure is answered alike: login with an      *)
(* unknown username, login with a wrong password, and a request whose      *)
(* token is invalid or expired, has no subject, or names no user.          *)
(***************************************************************************)
C19_UniformUnauthorized ==
    LET wrong_logins ==
            {c \in LoginNames \X LoginPasswords :
                ~\E i \in 1..Len(users) :
                    /\ users[i].username = c[1]
                    /\ users[i].hashed_password = GetPasswordHash(c[2])}
        bad_tokens ==
            {t \in Tokens :
                \/ ~t.signed
                \/ t.exp_passed
                \/ t.sub = <<>>
                \/ ~\E i \in 1..Len(users) : <<users[i].username>> = t.sub}
        failures ==
            {LoginResult(users, c[1], c[2]) : c \in wrong_logins}
                \cup {LookupFriendIdResult(users, t, user) :
                         t \in bad_tokens, user \in UserLookups}
    IN  \A a \in failures, b \in failures : a = b /\ a.status = 401

\* A request with a token was refused while a user beyond the first three
\* was registered.
C19_Witness ==
    /\ response.op = "lookup"
    /\ response.status = 401
    /\ Len(users) > Len(User)

(***************************************************************************)
(* client/format.py                                                        *)
(*                                                                         *)
(* A time_sent is the number of whole seconds after Epoch; the JSON of a   *)
(* response carries it as an ISO string, which datetime.fromisoformat      *)
(* takes apart again.                                                      *)
(***************************************************************************)
Epoch == [year |-> 2021, month |-> 1, day |-> 1]

\* datetime.fromisoformat, for the times of the first month after Epoch
FromIsoFormat(time_sent) ==
    [year   |-> Epoch.year,
     month  |-> Epoch.month,
     day    |-> Epoch.day + (time_sent \div 86400),
     hour   |-> (time_sent \div 3600) % 24,
     minute |-> (time_sent \div 60) % 60,
     second |-> time_sent % 60]

Digits == <<"0", "1", "2", "3", "4", "5", "6", "7", "8", "9">>

\* str(n) of a natural number, as an f-string prints it
RECURSIVE Str(_)
Str(n) ==
    IF n < 10 THEN <<Digits[n + 1]>> ELSE Str(n \div 10) \o <<Digits[(n % 10) + 1]>>

\* ts.strftime("%M")
StrftimeMinute(ts) == <<Digits[(ts.minute \div 10) + 1], Digits[(ts.minute % 10) + 1]>>

\* fmt_conversation, the timestamp of one message
FmtTimestamp(ts) ==
    LET am_pm  == IF ts.hour < 13 THEN <<"a", "m">> ELSE <<"p", "m">>
        hour   == IF ts.hour < 13 THEN ts.hour ELSE ts.hour - 12
        minute == StrftimeMinute(ts)
    IN  Str(hour) \o <<":">> \o minute \o am_pm \o <<",", " ">>
            \o Str(ts.month) \o <<"/">> \o Str(ts.day) \o <<"/">> \o Str(ts.year)

AssertionError == <<[raised |-> "AssertionError"]>>

TypeError == <<[raised |-> "TypeError"]>>

\* fmt_conversation: one printed entry per message, or the AssertionError
\* of an empty list.
FmtConversation(conversation_) ==
    IF Len(conversation_) > 0
    THEN [i \in 1..Len(conversation_) |->
             [sender    |-> conversation_[i].sender,
              timestamp |-> FmtTimestamp(FromIsoFormat(conversation_[i].time_sent)),
              content   |-> conversation_[i].content]]
    ELSE AssertionError

\* The times fmt_conversation is given: every minute of a day.
FormatTimes == {60 * m : m \in 0..1439}

\* A decoded answer of one message, sent at any minute of the day.
InitFormat ==
    /\ message = <<>>
    /\ conversation = <<>>
    /\ pending = {}
    /\ \E t \in FormatTimes :
          response = [op     |-> "get_conversation",
                      status |-> 200,
                      body   |-> <<[sender    |-> "mia",
                                    recipient |-> "dash",
                                    content   |-> Text(Len(Ellipsis)),
                                    time_sent |-> t]>>]
    /\ users = User
    /\ registering = {}
    /\ keyring = {}
    /\ passphrase = ""
    /\ access_token = <<>>
    /\ entered = NothingEntered
    /\ wire = <<>>
    /\ display = <<>>

\* print(fmt_conversation(decoded))
PrintConversation ==
    /\ display' = FmtConversation(response.body)
    /\ UNCHANGED <<message, conversation, pending, response, accountVars,
                   keyring, passphrase, access_token, entered, wire>>

NextFormat == PrintConversation

SpecFormat == InitFormat /\ [][NextFormat]_vars

\* C16: fmt_conversation prints the time of every message in 12-hour form:
\* the hour is in 1..12 without a leading zero, the suffix is "am" before
\* noon and "pm" from noon on, and the minute has two digits.
C16_TwelveHourClock ==
    \A i \in 1..Len(display) :
        LET ts       == FromIsoFormat(response.body[i].time_sent)
            hour     == IF ts.hour % 12 = 0 THEN 12 ELSE ts.hour % 12
            suffix   == IF ts.hour < 12 THEN <<"a", "m">> ELSE <<"p", "m">>
            expected == Str(hour) \o <<":">> \o StrftimeMinute(ts) \o suffix
        IN  SubSeq(display[i].timestamp, 1, Len(expected)) = expected

(***************************************************************************)
(* client/gpg_service.py                                                   *)
(*                                                                         *)
(* A key of the GnuPG home is its user id (an email), the passphrase of    *)
(* its secret part, and whether the home holds the secret part.            *)
(***************************************************************************)
Key(email, passphrase_, secret) ==
    [email |-> email, passphrase |-> passphrase_, secret |-> secret]

\* "-----BEGIN PGP MESSAGE-----", the first line of an armored message
Marker ==
    [i \in 1..5 |-> "-"]
        \o <<"B", "E", "G", "I", "N", " ", "P", "G", "P", " ",
             "M", "E", "S", "S", "A", "G", "E">>
        \o [i \in 1..5 |-> "-"]

\* `marker in content`
Contains(content, marker) ==
    \E i \in 1..(Len(content) - Len(marker) + 1) :
        SubSeq(content, i, i + Len(marker) - 1) = marker

\* The names of the model that hold an "@", and the names that are part of
\* another one: gpg finds the key of a recipient by a substring of its
\* user id.
AtNames == {"mia@sma", "dash@sma", "kai@sma", "ana@sma"}

IsSubstring(name, uid) ==
    \/ name = uid
    \/ <<name, uid>> \in {<<"mia", "mia@sma">>, <<"dash", "dash@sma">>,
                          <<"kai", "kai@sma">>, <<"ana", "ana@sma">>}

RecipientKeys(keys, name) == {k \in keys : IsSubstring(name, k.email)}

\* What encryption does to the characters of a message, and its inverse.
Position(ch) == CHOOSE j \in 1..Len(Alphabet) : Alphabet[j] = ch

Scramble(text) == [i \in 1..Len(text) |-> Alphabet[(Position(text[i]) % Len(Alphabet)) + 1]]

Unscramble(text) ==
    [i \in 1..Len(text) |->
        Alphabet[((Position(text[i]) + Len(Alphabet) - 2) % Len(Alphabet)) + 1]]

\* gpg.encrypt(as_bytes, recipients=recipients): the armored message for
\* the keys of the recipients, or a status that is not ok and holds no data
\* when a recipient has no key.
GpgEncrypt(keys, message_, recipients) ==
    IF \A i \in 1..Len(recipients) : RecipientKeys(keys, recipients[i]) # {}
    THEN [ok   |-> TRUE,
          data |-> Marker
                     \o [i \in 1..Len(recipients) |->
                            (CHOOSE k \in RecipientKeys(keys, recipients[i]) : TRUE).email]
                     \o Scramble(message_)]
    ELSE [ok |-> FALSE, data |-> <<>>]

\* Mutant: the message is handed on as it was entered.
EncryptMessageClear(keys, message_, recipients) ==
    [raised |-> "", value |-> message_]

\* GPGService.encrypt_message: str(status), or the AssertionError raised
EncryptMessage(keys, message_, recipients) ==
    IF message_ = <<>> \/ recipients = <<>>
    THEN [raised |-> "AssertionError", value |-> <<>>]
    ELSE [raised |-> "", value |-> GpgEncrypt(keys, message_, recipients).data]

\* gpg.decrypt(as_bytes, passphrase=self.passphrase): an armored message
\* is opened with the secret key it was made for and the passphrase of
\* that key; anything else gives a status that is not ok and holds no data.
GpgDecrypt(keys, passphrase_, message_) ==
    IF /\ Len(message_) > Len(Marker)
       /\ SubSeq(message_, 1, Len(Marker)) = Marker
       /\ \E k \in keys : /\ k.secret
                          /\ k.email = message_[Len(Marker) + 1]
                          /\ k.passphrase = passphrase_
    THEN [ok   |-> TRUE,
          data |-> Unscramble(SubSeq(message_, Len(Marker) + 2, Len(message_)))]
    ELSE [ok |-> FALSE, data |-> <<>>]

\* GPGService.decrypt_message: str(status), or the AssertionError raised
DecryptMessage(keys, passphrase_, message_) ==
    IF message_ = <<>>
    THEN [raised |-> "AssertionError", value |-> <<>>]
    ELSE [raised |-> "", value |-> GpgDecrypt(keys, passphrase_, message_).data]

(***************************************************************************)
(* client/http_service.py                                                  *)
(***************************************************************************)
\* HTTPService.get_user_or_email_payload, as schema.UserLookup reads it
GetUserOrEmailPayload(email_or_username) ==
    IF email_or_username \in AtNames
    THEN [username |-> "", email |-> email_or_username]
    ELSE [username |-> email_or_username, email |-> ""]

Request(method, path, authorization, json) ==
    [method |-> method, path |-> path, authorization |-> authorization, json |-> json]

Printed(line) == <<[printed |-> line]>>

\* The loop of decrypt_and_print_conversation: a message without the
\* marker is skipped.
DecryptMarked(keys, passphrase_, decoded) ==
    [i \in 1..Len(decoded) |->
        IF ~Contains(decoded[i].content, Marker)
        THEN decoded[i]
        ELSE [decoded[i] EXCEPT
                 !.content = DecryptMessage(keys, passphrase_, decoded[i].content).value]]

\* HTTPService.decrypt_and_print_conversation: what it prints
DecryptAndPrintConversation(keys, passphrase_, decoded) ==
    FmtConversation(DecryptMarked(keys, passphrase_, decoded))

\* The loop of preview_messages: every message is decrypted.
DecryptEvery(keys, passphrase_, decoded) ==
    [i \in 1..Len(decoded) |->
        [decoded[i] EXCEPT
            !.content = DecryptMessage(keys, passphrase_, decoded[i].content).value]]

\* HTTPService.preview_messages from the decoded answer on: what it prints
DecryptAndPrintPreviews(keys, passphrase_, decoded) ==
    IF \E i \in 1..Len(decoded) :
          DecryptMessage(keys, passphrase_, decoded[i].content).raised # ""
    THEN AssertionError
    ELSE FmtConversation(DecryptEvery(keys, passphrase_, decoded))

\* The bearer token of a request: the stored token, presented before or
\* after its expiry.
Bearer(token, expired) == [token[1].access_token EXCEPT !.exp_passed = expired]

(***************************************************************************)
(* What the user of the client types at its prompts.                       *)
(***************************************************************************)
\* The GnuPG home given to HTTPService(): empty, or with the public key of
\* a friend.
GnupgHomes == {{}, {Key("dash@sma", "", FALSE)}}

\* A GnuPG home with a key pair generated earlier.
KeyPairHomes == {{Key("old@sma", "old-secret", TRUE)}}

\* A passphrase GPGService.passphrase_is_valid accepts (8 to 64 characters).
InitPassphrases == {"gpg-secret"}

InitEmails == {"mia@sma"}

ClientRegistrations ==
    {[username |-> "ana", email |-> "ana@sma", password |-> "ana-secret"]}

\* A registration under a username that is taken.
TakenRegistrations ==
    {[username |-> "mia", email |-> "zoe@sma", password |-> "zoe-secret"]}

ClientLogins == {<<"mia", "mia-secret">>, <<"dash", "dash-secret">>,
                 <<"mia", "dash-secret">>}

ClientNames == {"mia@sma", "dash", "zed"}

ClientMessages == {Text(Len(Ellipsis)), <<>>}

(***************************************************************************)
(* The actions of the client.  A request is answered before the client     *)
(* goes on, and this client is the only one at work, so an action holds    *)
(* the handlers of the server it calls.  The requests of one action fall   *)
(* on the same side of the expiry of the token.  A person types the name   *)
(* and the text of a message, so a message of this client is sent a        *)
(* second or more after the one before.                                    *)
(***************************************************************************)
\* HTTPService.__init__ with GPGService.__init__: create_key() asks for a
\* passphrase and an email and generates a key pair.
HTTPServiceInit(home, passphrase_, email) ==
    /\ passphrase = ""
    /\ keyring' = home \cup {Key(email, passphrase_, TRUE)}
    /\ passphrase' = passphrase_
    /\ access_token' = <<>>
    /\ entered' = [op |-> "init", home |-> home, passphrase |-> passphrase_,
                   email |-> email]
    /\ wire' = <<>>
    /\ display' = Printed("GPGService initialization successful!")
    /\ UNCHANGED <<message, conversation, pending, response, accountVars>>

\* HTTPService.login
ClientLogin(username, password) ==
    /\ passphrase # ""
    /\ entered' = [op |-> "login", username |-> username, password |-> password]
    /\ wire' = <<Request("POST", <<"login">>, <<>>,
                         [username |-> username, password |-> password])>>
    /\ LET result == LoginResult(users, username, password)
       IN  /\ response' = Answer("login", result)
           /\ IF result.status # 200
              THEN /\ display' = Printed("Failed to log in. Check your credentials.")
                   /\ UNCHANGED access_token
              ELSE /\ access_token' = result.body
                   /\ display' = Printed("Login successful.")
    /\ UNCHANGED <<message, conversation, pending, accountVars, keyring, passphrase>>

\* HTTPService.register: POST /register (user.register with
\* crud.create_user), create_key, and the login that follows a 200.
ClientRegister(user) ==
    /\ passphrase # ""
    /\ entered' = [op |-> "register", username |-> user.username,
                   email |-> user.email, password |-> user.password]
    /\ keyring' = keyring \cup {Key(user.email, user.password, TRUE)}
    /\ LET register == Request("POST", <<"register">>, <<>>, user)
           login    == Request("POST", <<"login">>, <<>>,
                               [username |-> user.username,
                                password |-> user.password])
       IN  IF RegisterLookUps(users, user) # <<>>
           THEN /\ response' = Answer("register",
                                      Raised(RegisterLookUps(users, user)[1]))
                /\ wire' = <<register>>
                /\ display' = Printed("There was a problem creating your account.")
                /\ UNCHANGED <<users, access_token>>
           ELSE /\ users' = Append(users, UserRow(Len(users) + 1, user.username,
                                                  user.email, user.password))
                /\ wire' = <<register, login>>
                /\ LET result == LoginResult(users', user.username, user.password)
                   IN  /\ response' = Answer("login", result)
                       /\ access_token' = result.body
                /\ display' = Printed("Account created.") \o Printed("Login successful.")
    /\ UNCHANGED <<message, conversation, pending, registering, passphrase>>

\* HTTPService.send_message: POST /lookup/, encrypt_message, POST
\* /messages/{friend_id} (messages.send_message with crud.create_message),
\* decrypt_and_print_conversation.
ClientSendMessage(name, message_, time_sent, expired) ==
    /\ passphrase # ""
    /\ entered' = [op |-> "send_message", name |-> name, message |-> message_]
    /\ IF access_token = <<>>
       THEN /\ display' = Printed("You must be logged in to send a message.")
            /\ wire' = <<>>
            /\ UNCHANGED <<message, conversation, response>>
       ELSE LET token       == Bearer(access_token, expired)
                lookup      == Request("POST", <<"lookup">>, <<token>>,
                                       GetUserOrEmailPayload(name))
                id_response == LookupFriendIdResult(users, token, lookup.json)
                encrypted   == EncryptMessage(keyring, message_, <<name>>)
            IN  IF id_response.status # 200
                THEN /\ display' = Printed("That person could not be found.")
                     /\ wire' = <<lookup>>
                     /\ response' = Answer("lookup", id_response)
                     /\ UNCHANGED <<message, conversation>>
                ELSE IF encrypted.raised # ""
                THEN /\ display' = AssertionError
                     /\ wire' = <<lookup>>
                     /\ response' = Answer("lookup", id_response)
                     /\ UNCHANGED <<message, conversation>>
                ELSE LET friend_id  == id_response.body[1].id
                         sender     == GetCurrentUser(users, token).user[1].id
                         db_message == MessageRow(Len(message) + 1, time_sent,
                                                  encrypted.value)
                         db_conversation ==
                             ConversationRow(Len(conversation) + 1, sender,
                                             friend_id, db_message.id)
                     IN  /\ Len(message) < MaxMsgs
                         /\ message' = Append(message, db_message)
                         /\ conversation' = Append(conversation, db_conversation)
                         /\ response' =
                                [op     |-> "send_message",
                                 status |-> 200,
                                 body   |-> GetOneConversation(conversation', message',
                                                               sender, friend_id)]
                         /\ wire' = <<lookup,
                                      Request("POST", <<"messages", friend_id>>,
                                              <<token>>,
                                              [content |-> encrypted.value])>>
                         /\ display' = DecryptAndPrintConversation(keyring, passphrase,
                                                                   response'.body)
    /\ UNCHANGED <<pending, accountVars, keyring, passphrase, access_token>>

\* HTTPService.read_conversation: POST /lookup/, GET /messages/{friend_id}
\* (messages.get_conversation), decrypt_and_print_conversation.
ClientReadConversation(name, expired) ==
    /\ passphrase # ""
    /\ entered' = [op |-> "read_conversation", name |-> name]
    /\ IF access_token = <<>>
       THEN /\ display' = Printed("You must be logged in to view conversations.")
            /\ wire' = <<>>
            /\ UNCHANGED response
       ELSE LET token       == Bearer(access_token, expired)
                lookup      == Request("POST", <<"lookup">>, <<token>>,
                                       GetUserOrEmailPayload(name))
                id_response == LookupFriendIdResult(users, token, lookup.json)
            IN  IF id_response.status # 200
                THEN /\ display' = Printed("That person could not be found.")
                     /\ wire' = <<lookup>>
                     /\ response' = Answer("lookup", id_response)
                ELSE LET friend_id == id_response.body[1].id
                         reader_id == GetCurrentUser(users, token).user[1].id
                     IN  /\ response' =
                                [op     |-> "get_conversation",
                                 status |-> 200,
                                 body   |-> GetOneConversation(conversation, message,
                                                               reader_id, friend_id)]
                         /\ wire' = <<lookup,
                                      Request("GET", <<"messages", friend_id>>,
                                              <<token>>, <<>>)>>
                         /\ display' = DecryptAndPrintConversation(keyring, passphrase,
                                                                   response'.body)
    /\ UNCHANGED <<message, conversation, pending, accountVars,
                   keyring, passphrase, access_token>>

\* HTTPService.preview_messages: GET /messages/ (messages.get_conversations),
\* decryption of every message, fmt_conversation.  Without a token the
\* subscript of None is a TypeError; so is the `msg['content']` of the
\* key of an error answer.
ClientPreviewMessages(expired) ==
    /\ passphrase # ""
    /\ entered' = [op |-> "preview_messages"]
    /\ IF access_token = <<>>
       THEN /\ display' = TypeError
            /\ wire' = <<>>
            /\ UNCHANGED response
       ELSE LET token        == Bearer(access_token, expired)
                current_user == GetCurrentUser(users, token)
            IN  /\ wire' = <<Request("GET", <<"messages">>, <<token>>, <<>>)>>
                /\ IF current_user.user = <<>>
                   THEN /\ response' = Answer("get_conversations",
                                              Raised(current_user.error))
                        /\ display' = Printed("Could not retrieve messages.")
                                          \o TypeError
                   ELSE /\ \E pick \in PreviewPicks(conversation, message,
                                                    current_user.user[1].id) :
                              response' =
                                  [op     |-> "get_conversations",
                                   status |-> 200,
                                   body   |-> GetConversationPreviews(conversation,
                                                                      message, pick)]
                        /\ display' = DecryptAndPrintPreviews(keyring, passphrase,
                                                              response'.body)
    /\ UNCHANGED <<message, conversation, pending, accountVars,
                   keyring, passphrase, access_token>>

NextClient ==
    \/ \E home \in GnupgHomes, passphrase_ \in InitPassphrases, email \in InitEmails :
          HTTPServiceInit(home, passphrase_, email)
    \/ \E login \in ClientLogins : ClientLogin(login[1], login[2])
    \/ \E user \in ClientRegistrations : ClientRegister(user)
    \/ \E name \in ClientNames, message_ \in ClientMessages,
          expired \in BOOLEAN :
          ClientSendMessage(name, message_, LatestTimeSent(message) + 1, expired)
    \/ \E name \in ClientNames, expired \in BOOLEAN :
          ClientReadConversation(name, expired)
    \/ \E expired \in BOOLEAN : ClientPreviewMessages(expired)

SpecClient == Init /\ [][NextClient]_vars

(***************************************************************************)
(* Claims on the client                                                    *)
(***************************************************************************)
\* C12: the passphrase that unlocks a secret key of the GnuPG home stays
\* with the client: no request of a client action carries the passphrase of
\* GPGService or of a key pair the client generated.
C12_PassphraseStaysLocal ==
    \A i \in 1..Len(wire) :
        \A field \in DOMAIN wire[i].json \ {"content"} :
            /\ wire[i].json[field] # passphrase
            /\ \A k \in keyring : k.secret => wire[i].json[field] # k.passphrase

\* C13: the content of every POST /messages/{friend_id} of send_message is
\* the output of encrypt_message for the entered text, and the entered text
\* itself is in no request.
C13_OnlyCiphertextSent ==
    entered.op = "send_message" =>
        \A i \in 1..Len(wire) :
            "content" \in DOMAIN wire[i].json =>
                /\ wire[i].json.content =
                       EncryptMessage(keyring, entered.message, <<entered.name>>).value
                /\ ~Contains(wire[i].json.content, entered.message)

\* A message was entered, encrypted, posted and stored.
C13_Witness ==
    /\ entered.op = "send_message"
    /\ entered.message # <<>>
    /\ \E i \in 1..Len(wire) :
          /\ wire[i].method = "POST"
          /\ "content" \in DOMAIN wire[i].json
          /\ Contains(wire[i].json.content, Marker)
          /\ message # <<>>
          /\ message[Len(message)].content = wire[i].json.content

\* C14: encrypt_message raises an error for an empty text, for an empty
\* list of recipients and for a recipient without a usable key, and a
\* send_message that calls it with such an input (the look-up of the
\* friend was answered with 200) stores nothing on the server.
C14_FailedEncryptionStoresNothing ==
    [][\A name \in ClientNames, message_ \in ClientMessages :
          (/\ entered'.op = "send_message"
           /\ wire' # <<>>
           /\ response'.status = 200
           /\ entered'.name = name
           /\ entered'.message = message_
           /\ (message_ = <<>> \/ RecipientKeys(keyring, name) = {}))
          => /\ EncryptMessage(keyring, message_, <<name>>).raised # ""
             /\ EncryptMessage(keyring, message_, <<>>).raised # ""
             /\ message' = message
             /\ conversation' = conversation]_vars

\* C15: of a transcript and of a preview list the client decrypts the
\* messages whose content holds the marker and shows the others unchanged.
C15_DecryptOnlyMarked ==
    (/\ entered.op \in {"send_message", "read_conversation", "preview_messages"}
     /\ wire # <<>>
     /\ response.op \in {"send_message", "get_conversation", "get_conversations"}
     /\ response.status = 200)
        => display = DecryptAndPrintConversation(keyring, passphrase, response.body)

(***************************************************************************)
(* The store under writes and reads: two users write texts longer than a   *)
(* preview to each other and to themselves, and read their transcripts     *)
(* and their previews.                                                     *)
(***************************************************************************)
Correspondents == {User[1].id, User[2].id}

NextStore ==
    \/ \E sender \in Correspondents, recipient \in Correspondents,
          time_sent \in ClockReadings(message) :
          CreateMessageInsertMessage(sender, recipient, Text(PreviewLen + 1), time_sent)
    \/ \E req \in pending : CreateMessageInsertConversation(req)
    \/ \E reader_id \in Correspondents, friend_id \in Correspondents :
          GetConversation(reader_id, friend_id)
    \/ \E reader_id \in Correspondents : GetConversations(reader_id)

SpecStore == Init /\ [][NextStore]_vars

Elements(seq) == {seq[i] : i \in 1..Len(seq)}

\* C20: once a send from A to B is complete, the transcript it returns
\* and every later transcript of A with B and of B with A holds the message
\* with sender A, recipient B and the content and time_sent stored; the rows
\* of the store never change, and a transcript or preview read (truncation
\* included) leaves the store as it was.
C20_MessagesPersist ==
    /\ [](\A c \in Links :
             LET sent == [sender    |-> Username(c.sender_id),
                          recipient |-> Username(c.recipient_id),
                          content   |-> message[c.message_id].content,
                          time_sent |-> message[c.message_id].time_sent]
             IN  /\ sent \in Elements(Transcript(c.sender_id, c.recipient_id))
                 /\ sent \in Elements(Transcript(c.recipient_id, c.sender_id)))
    /\ [][/\ Len(message') >= Len(message)
          /\ \A i \in 1..Len(message) : message'[i] = message[i]
          /\ Len(conversation') >= Len(conversation)
          /\ \A i \in 1..Len(conversation) : conversation'[i] = conversation[i]
          /\ Len(conversation') > Len(conversation)
                => LET c == conversation'[Len(conversation')]
                   IN  /\ response'.op = "send_message"
                       /\ [sender    |-> Username(c.sender_id),
                           recipient |-> Username(c.recipient_id),
                           content   |-> message'[c.message_id].content,
                           time_sent |-> message'[c.message_id].time_sent]
                              \in Elements(response'.body)
          /\ (response' # response
                  /\ response'.op \in {"get_conversation", "get_conversations"})
                => message' = message /\ conversation' = conversation]_vars

\* A truncated preview was read while the store holds a message from one
\* user to the other, in full.
C20_Witness ==
    /\ response.op = "get_conversations"
    /\ \E i \in 1..Len(response.body) :
          Len(response.body[i].content) = PreviewLen + Len(Ellipsis)
    /\ \E c \in Links :
          /\ c.sender_id # c.recipient_id
          /\ Len(message[c.message_id].content) = PreviewLen + 1

(***************************************************************************)
(* The client started on any home and registering under any name, writing  *)
(* to and reading from the one user whose key it generates.                *)
(***************************************************************************)
ProvisionNames == {"mia@sma", "zed"}

NextProvision ==
    \/ \E home \in GnupgHomes \cup KeyPairHomes, passphrase_ \in InitPassphrases,
          email \in InitEmails :
          HTTPServiceInit(home, passphrase_, email)
    \/ \E login \in ClientLogins : ClientLogin(login[1], login[2])
    \/ \E user \in ClientRegistrations \cup TakenRegistrations : ClientRegister(user)
    \/ \E name \in ProvisionNames, message_ \in ClientMessages, expired \in BOOLEAN :
          ClientSendMessage(name, message_, LatestTimeSent(message) + 1, expired)
    \/ \E name \in ProvisionNames, expired \in BOOLEAN :
          ClientReadConversation(name, expired)
    \/ \E expired \in BOOLEAN : ClientPreviewMessages(expired)

SpecProvision == Init /\ [][NextProvision]_vars

\* C21: a client action that fails (the server answers with a status other
\* than 200, or the client holds no token and sends nothing) prints a
\* report and stops: it decodes and displays no answer, and the key ring,
\* the passphrase and the token are as before; a failed register generates
\* no key pair and a failed login leaves access_token as it was.
C21_FailedActionAborts ==
    [][(/\ entered'.op \in {"register", "login", "send_message",
                            "read_conversation", "preview_messages"}
        /\ (wire' = <<>> \/ response'.status # 200))
          => /\ keyring' = keyring
             /\ passphrase' = passphrase
             /\ access_token' = access_token
             /\ Len(display') = 1
             /\ "printed" \in DOMAIN display'[1]]_vars

\* C22: a key pair is generated only when the client is started, and only
\* on a GnuPG home that holds no key pair; sending, reading and previewing
\* generate none.
C22_ProvisionOnlyAtFirstUse ==
    [][keyring' # keyring
          => /\ entered'.op = "init"
             /\ ~\E k \in entered'.home : k.secret]_vars

=============================================================================
